---- MODULE Spec2Model ----
(***************************************************************************)
(* optedit: cost-optimal edit scripts between two strings.                 *)
(*                                                                         *)
(* src/optedit.cc holds two variants of the program.  The first (lines     *)
(* 1-153) compares candidate costs with '<' and is called Minimize here;   *)
(* the second (lines 155-283) compares with '>' and is called Maximize.    *)
(* Both are modelled by one state machine whose variable `variant` says    *)
(* which of the two is running.  One run is: main calls                    *)
(* compute_optimal_edits, which fills edit_matrix (three loops), replays   *)
(* the path from the final cell (the while loop), and returns; main then   *)
(* writes one line per edit.                                               *)
(*                                                                         *)
(* C++ strings and vectors are indexed from 0.  Strings are modelled as    *)
(* TLA+ sequences (indexed from 1) and read through At; the matrix is a    *)
(* function over 0..to_length and 0..from_length.                          *)
(*                                                                         *)
(* `unsigned` values are 32 bits wide.  A value v is modelled by the       *)
(* integer v when v is small and by v - 2^32 when it is the result of      *)
(* decrementing below 0 (so 0u - 1 is modelled by -1, and -1 + 1 = 0 as in *)
(* the machine).  The costs of the model are small enough that no sum of   *)
(* costs comes near 2^32.                                                  *)
(***************************************************************************)
EXTENDS Integers, Sequences, FiniteSets

VARIABLES variant, from, to, costs, edit_matrix, pc, from_idx, to_idx,
          result, out

vars == <<variant, from, to, costs, edit_matrix, pc, from_idx, to_idx,
          result, out>>

\* ------------------------------------------------------------------ bounds

MaxLen == 2

MaxCost == 1

\* --------------------------------------------------------------- data types

Minimize == "Minimize"

Maximize == "Maximize"

Variants == {Minimize, Maximize}

SKIP == 0

DELETE == 1

INSERT == 2

REPLACE == 3

EditTypes == {SKIP, DELETE, INSERT, REPLACE}

\* The characters of the input strings.
Symbols == {"a", "b"}

\* The character 0 that the code stores where an edit has no character.
NUL == "NUL"

Chars == Symbols \cup {NUL}

Strings == UNION {[1..k -> Symbols] : k \in 0..MaxLen}

MkCosts(skp, del, ins, rep) ==
    [t \in EditTypes |-> CASE t = SKIP -> skp
                           [] t = DELETE -> del
                           [] t = INSERT -> ins
                           [] t = REPLACE -> rep]

std_edit_costs(v) ==
    IF v = Minimize THEN MkCosts(1, 10, 15, 5) ELSE MkCosts(1, 10, 10, 2)

EditCosts ==
    {MkCosts(s, d, i, r) : s \in 0..MaxCost, d \in 0..MaxCost,
                           i \in 0..MaxCost, r \in 0..MaxCost}

edit_type_names ==
    [t \in EditTypes |-> CASE t = SKIP -> <<"S", "K", "P">>
                           [] t = DELETE -> <<"D", "E", "L">>
                           [] t = INSERT -> <<"I", "N", "S">>
                           [] t = REPLACE -> <<"R", "E", "P">>]

\* struct Edit of the first variant: two characters.
Edit(type, from_ch, to_ch) ==
    [type |-> type, from_ch |-> from_ch, to_ch |-> to_ch]

\* struct Edit of the second variant: one character.
Edit1(type, ch) == [type |-> type, ch |-> ch]

EditNode(edit, cost) == [edit |-> edit, cost |-> cost]

\* EditNode (): what every cell holds after the matrix is allocated.
DefaultNode(v) ==
    IF v = Minimize THEN EditNode(Edit(SKIP, NUL, NUL), 0)
                    ELSE EditNode(Edit1(SKIP, NUL), 0)

\* s[k] of the C++ string s.
At(s, k) == s[k + 1]

from_length == Len(from)

to_length == Len(to)

\* The matrix as allocated: to_length + 1 rows of from_length + 1 cells.
NewMatrix(v, f, t) ==
    [i \in 0..Len(t) |-> [j \in 0..Len(f) |-> DefaultNode(v)]]

\* ------------------------------------------------------ filling the matrix

\* Mutants of DeleteNode: the character of the edit left 0, as the second
\* variant leaves it; and the cost of one deletion too few.
DeleteNode_NoChar(v, f, c, fi) ==
    IF v = Minimize
    THEN EditNode(Edit(DELETE, NUL, NUL), (fi + 1) * c[DELETE])
    ELSE EditNode(Edit1(DELETE, NUL), (fi + 1) * c[DELETE])

DeleteNode_CostOff(v, f, c, fi) ==
    IF v = Minimize
    THEN EditNode(Edit(DELETE, At(f, fi), NUL), fi * c[DELETE])
    ELSE EditNode(Edit1(DELETE, NUL), fi * c[DELETE])

\* The node stored in edit_matrix[0][fi + 1].
DeleteNode(v, f, c, fi) ==
    IF v = Minimize
    THEN EditNode(Edit(DELETE, At(f, fi), NUL), (fi + 1) * c[DELETE])
    ELSE EditNode(Edit1(DELETE, NUL), (fi + 1) * c[DELETE])

\* Mutant of InsertNode: the cost of one insertion too few.
InsertNode_CostOff(v, t, c, ti) ==
    IF v = Minimize
    THEN EditNode(Edit(INSERT, NUL, At(t, ti)), ti * c[INSERT])
    ELSE EditNode(Edit1(INSERT, At(t, ti)), ti * c[INSERT])

\* The node stored in edit_matrix[ti + 1][0].
InsertNode(v, t, c, ti) ==
    IF v = Minimize
    THEN EditNode(Edit(INSERT, NUL, At(t, ti)), (ti + 1) * c[INSERT])
    ELSE EditNode(Edit1(INSERT, At(t, ti)), (ti + 1) * c[INSERT])

\* Mutant of rep_type: the two outcomes exchanged.
rep_type_Swapped(f, t, fi, ti) ==
    IF At(f, fi) = At(t, ti) THEN REPLACE ELSE SKIP

rep_type(f, t, fi, ti) == IF At(f, fi) = At(t, ti) THEN SKIP ELSE REPLACE

ins_cost(m, c, ti, fi) == m[ti][fi + 1].cost + c[INSERT]

del_cost(m, c, ti, fi) == m[ti + 1][fi].cost + c[DELETE]

rep_cost(m, f, t, c, ti, fi) == m[ti][fi].cost + c[rep_type(f, t, fi, ti)]

\* Mutants of MinChoice: || for && in the first test; <= for <.
MinChoice_Or(ic, dc, rc, rt) ==
    IF ic < dc \/ ic < rc THEN [cost |-> ic, type |-> INSERT]
    ELSE IF dc < rc THEN [cost |-> dc, type |-> DELETE]
    ELSE [cost |-> rc, type |-> rt]

MinChoice_LessEq(ic, dc, rc, rt) ==
    IF ic <= dc /\ ic <= rc THEN [cost |-> ic, type |-> INSERT]
    ELSE IF dc <= rc THEN [cost |-> dc, type |-> DELETE]
    ELSE [cost |-> rc, type |-> rt]

\* The if-chain of the first variant: <<cost, type>>.
MinChoice(ic, dc, rc, rt) ==
    IF ic < dc /\ ic < rc THEN [cost |-> ic, type |-> INSERT]
    ELSE IF dc < rc THEN [cost |-> dc, type |-> DELETE]
    ELSE [cost |-> rc, type |-> rt]

\* Mutant of MaxChoice: the last two branches exchanged.
MaxChoice_Swapped(ic, dc, rc, rt) ==
    IF ic > dc /\ ic > rc THEN [cost |-> ic, type |-> INSERT]
    ELSE IF dc > rc THEN [cost |-> rc, type |-> rt]
    ELSE [cost |-> dc, type |-> DELETE]

\* The if-chain of the second variant.
MaxChoice(ic, dc, rc, rt) ==
    IF ic > dc /\ ic > rc THEN [cost |-> ic, type |-> INSERT]
    ELSE IF dc > rc THEN [cost |-> dc, type |-> DELETE]
    ELSE [cost |-> rc, type |-> rt]

\* The node stored in edit_matrix[ti + 1][fi + 1] by the inner loop.
CellNode(m, v, f, t, c, ti, fi) ==
    LET ic == ins_cost(m, c, ti, fi)
        dc == del_cost(m, c, ti, fi)
        rc == rep_cost(m, f, t, c, ti, fi)
        rt == rep_type(f, t, fi, ti)
        ch == IF v = Minimize THEN MinChoice(ic, dc, rc, rt)
                              ELSE MaxChoice(ic, dc, rc, rt)
    IN  IF v = Minimize
        THEN EditNode(Edit(ch.type, At(f, fi), At(t, ti)), ch.cost)
        ELSE EditNode(Edit1(ch.type, At(t, ti)), ch.cost)

\* The three filling loops run to completion on a fresh matrix: the matrix
\* compute_optimal_edits holds when it reaches the replay loop.
RECURSIVE DeleteLoop(_, _, _, _, _)
DeleteLoop(m, v, f, c, fi) ==
    IF fi < Len(f)
    THEN DeleteLoop([m EXCEPT ![0][fi + 1] = DeleteNode(v, f, c, fi)],
                    v, f, c, fi + 1)
    ELSE m

RECURSIVE InnerLoop(_, _, _, _, _, _, _)
InnerLoop(m, v, f, t, c, ti, fi) ==
    IF fi < Len(f)
    THEN InnerLoop([m EXCEPT ![ti + 1][fi + 1] = CellNode(m, v, f, t, c, ti, fi)],
                   v, f, t, c, ti, fi + 1)
    ELSE m

RECURSIVE OuterLoop(_, _, _, _, _, _)
OuterLoop(m, v, f, t, c, ti) ==
    IF ti < Len(t)
    THEN OuterLoop(InnerLoop([m EXCEPT ![ti + 1][0] = InsertNode(v, t, c, ti)],
                             v, f, t, c, ti, 0),
                   v, f, t, c, ti + 1)
    ELSE m

FilledMatrix(v, f, t, c) ==
    OuterLoop(DeleteLoop(NewMatrix(v, f, t), v, f, c, 0), v, f, t, c, 0)

\* ------------------------------------------------------------ replay loop

\* x-- on an unsigned x: 0 wraps to 2^32 - 1, which -1 stands for.
Dec(x) == x - 1

InGrid(r, c) == r \in 0..to_length /\ c \in 0..from_length

\* Mutant of ReadRow: the first variant reads as the second does.
ReadRow_PlusOne(v, ti) == ti + 1

\* The row and column the replay loop reads with the cursor at (ti, fi).
ReadRow(v, ti) == IF v = Minimize THEN ti ELSE ti + 1

ReadCol(v, fi) == IF v = Minimize THEN fi ELSE fi + 1

\* The loop condition, from_idx > 0 || to_idx > 0, on unsigned values.
LoopCond == from_idx # 0 \/ to_idx # 0

\* A byte of memory outside the vectors: its value is not known.
ANY == "?"

\* What a read outside the vectors can yield: undefined behaviour, an edit of
\* any type with unknown characters.  (A type outside 0..3 acts in the loop as
\* SKIP and REPLACE do.)
Garbage(v) ==
    IF v = Minimize THEN {Edit(ty, ANY, ANY) : ty \in EditTypes}
                    ELSE {Edit1(ty, ANY) : ty \in EditTypes}

\* The edits the read edit_matrix[r][c].edit can yield.  A read outside the
\* grid made after a coordinate of the cursor has wrapped is followed to the
\* fault alone: the cursor is then about 2^32 decrements away from (0, 0),
\* and the loop cannot come back to the grid before memory runs out.
ReadEdits(r, c) ==
    IF InGrid(r, c) THEN {edit_matrix[r][c].edit}
    ELSE IF from_idx < 0 \/ to_idx < 0 THEN {}
    ELSE Garbage(variant)

\* ------------------------------------------------------------- rendering

\* Mutant of edit_rep: the second test without its SKIP clause.
edit_rep_NoSkipTest(edit) ==
    LET rep0 == edit_type_names[edit.type]
        rep1 == IF edit.type # INSERT
                THEN rep0 \o <<" ">> \o <<edit.from_ch>> ELSE rep0
    IN  IF edit.type # DELETE
        THEN rep1 \o <<" ">> \o <<edit.to_ch>> ELSE rep1

\* edit_rep of the first variant.
edit_rep(edit) ==
    LET rep0 == edit_type_names[edit.type]
        rep1 == IF edit.type # INSERT
                THEN rep0 \o <<" ">> \o <<edit.from_ch>> ELSE rep0
    IN  IF edit.type # DELETE /\ edit.type # SKIP
        THEN rep1 \o <<" ">> \o <<edit.to_ch>> ELSE rep1

\* The line main of the second variant writes.
edit_line(edit) == edit_type_names[edit.type] \o <<" ">> \o <<edit.ch>>

\* ------------------------------------------------------------ the program

\* The program only compares symbols for equality and copies them, so a run
\* on (from, to) is the run on the pair with the two symbols exchanged, up to
\* that exchange.  The inputs are the pairs whose first symbol, if any, is "a".
Canonical(f, t) ==
    IF Len(f) > 0 THEN f[1] = "a" ELSE (Len(t) > 0 => t[1] = "a")

Init ==
    /\ variant \in Variants
    /\ from \in Strings
    /\ to \in Strings
    /\ Canonical(from, to)
    /\ costs \in EditCosts \cup {std_edit_costs(variant)}
    /\ edit_matrix = NewMatrix(variant, from, to)
    /\ pc = "delete_row"
    /\ from_idx = 0
    /\ to_idx = 0
    /\ result = <<>>
    /\ out = <<>>

\* One iteration of the loop filling row 0.
DeleteRow ==
    /\ pc = "delete_row"
    /\ from_idx < from_length
    /\ edit_matrix' = [edit_matrix EXCEPT ![0][from_idx + 1] =
                          DeleteNode(variant, from, costs, from_idx)]
    /\ from_idx' = from_idx + 1
    /\ UNCHANGED <<variant, from, to, costs, pc, to_idx, result, out>>

DeleteRowEnd ==
    /\ pc = "delete_row"
    /\ ~(from_idx < from_length)
    /\ pc' = "row"
    /\ to_idx' = 0
    /\ UNCHANGED <<variant, from, to, costs, edit_matrix, from_idx, result, out>>

\* The head of one iteration of the outer loop: the first cell of the row.
RowStart ==
    /\ pc = "row"
    /\ to_idx < to_length
    /\ edit_matrix' = [edit_matrix EXCEPT ![to_idx + 1][0] =
                          InsertNode(variant, to, costs, to_idx)]
    /\ from_idx' = 0
    /\ pc' = "cell"
    /\ UNCHANGED <<variant, from, to, costs, to_idx, result, out>>

\* One iteration of the inner loop.
FillCell ==
    /\ pc = "cell"
    /\ from_idx < from_length
    /\ edit_matrix' = [edit_matrix EXCEPT ![to_idx + 1][from_idx + 1] =
                          CellNode(edit_matrix, variant, from, to, costs,
                                   to_idx, from_idx)]
    /\ from_idx' = from_idx + 1
    /\ UNCHANGED <<variant, from, to, costs, pc, to_idx, result, out>>

RowEnd ==
    /\ pc = "cell"
    /\ ~(from_idx < from_length)
    /\ to_idx' = to_idx + 1
    /\ pc' = "row"
    /\ UNCHANGED <<variant, from, to, costs, edit_matrix, from_idx, result, out>>

\* The outer loop ends; the replay cursor is set to the final position.
ReplayStart ==
    /\ pc = "row"
    /\ ~(to_idx < to_length)
    /\ from_idx' = from_length
    /\ to_idx' = to_length
    /\ pc' = "replay"
    /\ UNCHANGED <<variant, from, to, costs, edit_matrix, result, out>>

\* One iteration of the replay loop.
ReplayStep ==
    /\ pc = "replay"
    /\ LoopCond
    /\ \E edit \in ReadEdits(ReadRow(variant, to_idx), ReadCol(variant, from_idx)) :
          /\ result' = <<edit>> \o result
          /\ from_idx' = IF edit.type # INSERT THEN Dec(from_idx) ELSE from_idx
          /\ to_idx' = IF edit.type # DELETE THEN Dec(to_idx) ELSE to_idx
    /\ UNCHANGED <<variant, from, to, costs, edit_matrix, pc, out>>

\* A read outside the vectors ends the process (a fault), the other outcome
\* of the undefined behaviour.
ReplayFault ==
    /\ pc = "replay"
    /\ LoopCond
    /\ ~InGrid(ReadRow(variant, to_idx), ReadCol(variant, from_idx))
    /\ pc' = "fault"
    /\ UNCHANGED <<variant, from, to, costs, edit_matrix, from_idx, to_idx,
                   result, out>>

\* The loop ends and compute_optimal_edits returns result to main.
Return ==
    /\ pc = "replay"
    /\ ~LoopCond
    /\ pc' = "write"
    /\ UNCHANGED <<variant, from, to, costs, edit_matrix, from_idx, to_idx,
                   result, out>>

\* main writes the line of the next edit of the list.
WriteLine ==
    /\ pc = "write"
    /\ Len(out) < Len(result)
    /\ LET edit == result[Len(out) + 1]
       IN  out' = Append(out, IF variant = Minimize THEN edit_rep(edit)
                                                    ELSE edit_line(edit))
    /\ UNCHANGED <<variant, from, to, costs, edit_matrix, pc, from_idx, to_idx,
                   result>>

Exit ==
    /\ pc = "write"
    /\ Len(out) = Len(result)
    /\ pc' = "exit"
    /\ UNCHANGED <<variant, from, to, costs, edit_matrix, from_idx, to_idx,
                   result, out>>

Next ==
    \/ DeleteRow
    \/ DeleteRowEnd
    \/ RowStart
    \/ FillCell
    \/ RowEnd
    \/ ReplayStart
    \/ ReplayStep
    \/ ReplayFault
    \/ Return
    \/ WriteLine
    \/ Exit

Spec == Init /\ [][Next]_vars

\* The program is sequential and runs every step it can.
FairSpec == Spec /\ WF_vars(Next)

\* ---------------------------------------------------------------- claims

\* compute_optimal_edits has returned.
Returned == pc \in {"write", "exit"}

\* The filling loops have just ended: the replay loop has not yet run.
JustFilled ==
    /\ pc = "replay"
    /\ result = <<>>
    /\ from_idx = from_length
    /\ to_idx = to_length

\* The cost of the terminal cell, edit_matrix[to_length][from_length].
TerminalCost(m) == m[to_length][from_length].cost

\* The total costs of all alignments of the first j symbols of f with the
\* first i symbols of t: all monotone paths of Insert, Delete and diagonal
\* steps from (0,0) to (i,j).
RECURSIVE PathCosts(_, _, _, _, _)
PathCosts(f, t, c, i, j) ==
    IF i = 0 /\ j = 0 THEN {0}
    ELSE (IF i > 0 THEN {x + c[INSERT] : x \in PathCosts(f, t, c, i - 1, j)}
                   ELSE {})
         \cup
         (IF j > 0 THEN {x + c[DELETE] : x \in PathCosts(f, t, c, i, j - 1)}
                   ELSE {})
         \cup
         (IF i > 0 /\ j > 0
          THEN {x + c[IF f[j] = t[i] THEN SKIP ELSE REPLACE] :
                   x \in PathCosts(f, t, c, i - 1, j - 1)}
          ELSE {})

SetMin(S) == CHOOSE x \in S : \A y \in S : x <= y

RECURSIVE SumCosts(_, _)
SumCosts(edits, c) ==
    IF edits = <<>> THEN 0 ELSE c[Head(edits).type] + SumCosts(Tail(edits), c)

NotInsert(e) == e.type # INSERT

NotDelete(e) == e.type # DELETE

\* C1: in the Minimize variant, once the matrix is filled, the cost of the
\* terminal cell is the minimum total cost over all alignments of from to to.
C1_TerminalIsMinimum ==
    (variant = Minimize /\ pc \in {"replay", "write", "exit"}) =>
        TerminalCost(edit_matrix) =
            SetMin(PathCosts(from, to, costs, to_length, from_length))

C1_Witness ==
    /\ variant = Minimize
    /\ pc = "exit"
    /\ from_length = 2
    /\ to_length = 2
    /\ from # to
    /\ TerminalCost(edit_matrix) > 0
    /\ Cardinality(PathCosts(from, to, costs, to_length, from_length)) > 2

\* C2: in the Minimize variant the returned edits that are not INSERT carry,
\* in order, exactly the symbols of from in from_ch, and those that are not
\* DELETE carry, in order, exactly the symbols of to in to_ch.
C2_EditsCarryBothStrings ==
    (variant = Minimize /\ Returned) =>
        LET src == SelectSeq(result, NotInsert)
            tgt == SelectSeq(result, NotDelete)
        IN  /\ Len(src) = from_length
            /\ \A k \in 1..Len(src) : src[k].from_ch = from[k]
            /\ Len(tgt) = to_length
            /\ \A k \in 1..Len(tgt) : tgt[k].to_ch = to[k]

C2_Witness ==
    /\ variant = Minimize
    /\ pc = "exit"
    /\ from_length = 2
    /\ to_length = 2
    /\ \E k \in 1..Len(result) : result[k].type = INSERT
    /\ \E k \in 1..Len(result) : result[k].type = DELETE
    /\ \E k \in 1..Len(result) : result[k].type \in {SKIP, REPLACE}

\* C3: in the Minimize variant the costs of the returned edits sum to the
\* cost of the terminal cell.
C3_SumIsTerminalCost ==
    (variant = Minimize /\ Returned) =>
        SumCosts(result, costs) = TerminalCost(edit_matrix)

C3_Witness ==
    /\ variant = Minimize
    /\ pc = "exit"
    /\ Len(result) = 3
    /\ \E k \in 1..Len(result) : result[k].type = INSERT
    /\ SumCosts(result, costs) > 0

\* The cases of C4 as amended: Skip is no dearer than Replace, nor than a
\* Delete and an Insert together.
SkipIsCheapest(c) ==
    c[SKIP] <= c[REPLACE] /\ c[SKIP] <= c[DELETE] + c[INSERT]

AllSkips ==
    /\ Len(result) = from_length
    /\ \A k \in 1..Len(result) : result[k].type = SKIP

\* C4 (amended): aligning s with itself under a cost model with
\* cost(Skip) <= cost(Replace) and cost(Skip) <= cost(Delete) + cost(Insert)
\* returns exactly |s| edits, all SKIP, and the cost of the terminal cell is
\* |s| * cost(Skip) (0 only when cost(Skip) is 0).
C4_IdentityAllSkips ==
    (variant = Minimize /\ Returned /\ from = to /\ SkipIsCheapest(costs)) =>
        /\ AllSkips
        /\ TerminalCost(edit_matrix) = from_length * costs[SKIP]

C4_Witness ==
    /\ variant = Minimize
    /\ pc = "exit"
    /\ from = to
    /\ from_length = 2
    /\ SkipIsCheapest(costs)
    /\ costs[SKIP] > 0
    /\ AllSkips

\* C4 as claimed: under every cost model, aligning s with itself returns |s|
\* edits, all SKIP, of total cost 0.
C4_Original ==
    (variant = Minimize /\ Returned /\ from = to) =>
        /\ AllSkips
        /\ TerminalCost(edit_matrix) = 0
        /\ SumCosts(result, costs) = 0

\* C5: in the Minimize variant an empty from gives one INSERT per symbol of
\* to, in order, at terminal cost to_length * cost(Insert); an empty to gives
\* one DELETE per symbol of from, in order, at terminal cost
\* from_length * cost(Delete); both empty give the empty list.
C5_EmptyString ==
    (variant = Minimize /\ Returned) =>
        /\ from = <<>> =>
              /\ Len(result) = to_length
              /\ \A k \in 1..Len(result) :
                    result[k].type = INSERT /\ result[k].to_ch = to[k]
              /\ TerminalCost(edit_matrix) = to_length * costs[INSERT]
        /\ to = <<>> =>
              /\ Len(result) = from_length
              /\ \A k \in 1..Len(result) :
                    result[k].type = DELETE /\ result[k].from_ch = from[k]
              /\ TerminalCost(edit_matrix) = from_length * costs[DELETE]
        /\ (from = <<>> /\ to = <<>>) => result = <<>>

C5_Witness ==
    /\ variant = Minimize
    /\ pc = "exit"
    /\ from = <<>>
    /\ to_length = 2
    /\ to[1] # to[2]
    /\ Len(result) = 2
    /\ costs[INSERT] > 0

\* The line the interface of C6 as amended gives an edit.
AmendedLine(e) ==
    CASE e.type = SKIP -> <<"S", "K", "P", " ", e.from_ch>>
      [] e.type = DELETE -> <<"D", "E", "L", " ", e.from_ch>>
      [] e.type = INSERT -> <<"I", "N", "S", " ", e.to_ch>>
      [] e.type = REPLACE -> <<"R", "E", "P", " ", e.from_ch, " ", e.to_ch>>

\* The line C6 as claimed gives an edit: Skip and Replace show both symbols.
ClaimedLine(e) ==
    CASE e.type = SKIP -> <<"S", "K", "P", " ", e.from_ch, " ", e.to_ch>>
      [] e.type = DELETE -> <<"D", "E", "L", " ", e.from_ch>>
      [] e.type = INSERT -> <<"I", "N", "S", " ", e.to_ch>>
      [] e.type = REPLACE -> <<"R", "E", "P", " ", e.from_ch, " ", e.to_ch>>

\* C6 (amended): the line of an edit is its tag followed by the source symbol
\* alone for Delete and for Skip, by the target symbol alone for Insert, and
\* by the source symbol and then the target symbol for Replace.
C6_RenderedLine ==
    variant = Minimize =>
        \A k \in 1..Len(out) : out[k] = AmendedLine(result[k])

C6_Witness ==
    /\ variant = Minimize
    /\ pc = "exit"
    /\ \E k \in 1..Len(out) : result[k].type = SKIP /\ Len(out[k]) = 5
    /\ \E k \in 1..Len(out) : result[k].type = REPLACE /\ Len(out[k]) = 7

\* C6 as claimed: a Skip line shows the source and the target symbol.
C6_Original ==
    variant = Minimize =>
        \A k \in 1..Len(out) : out[k] = ClaimedLine(result[k])

\* The terminal cost the variant computes for the same strings when
\* cost(Replace) is raised by d.
RaisedTerminalCost(d) ==
    TerminalCost(FilledMatrix(variant, from, to,
                              [costs EXCEPT ![REPLACE] = @ + d]))

\* C7 (amended): raising cost(Replace) alone never lowers the terminal cost,
\* in the Minimize variant and in the Maximize variant alike.
C7_ReplaceMonotone ==
    JustFilled =>
        \A d \in 1..MaxCost :
            RaisedTerminalCost(d) >= TerminalCost(edit_matrix)

C7_Witness ==
    /\ JustFilled
    /\ variant = Maximize
    /\ from_length = 2
    /\ to_length = 2
    /\ RaisedTerminalCost(1) > TerminalCost(edit_matrix)

\* C7 as claimed: raising cost(Replace) never lowers the terminal cost of the
\* Minimize variant and never raises that of the Maximize variant.
C7_Original ==
    JustFilled =>
        \A d \in 1..MaxCost :
            /\ variant = Minimize =>
                  RaisedTerminalCost(d) >= TerminalCost(edit_matrix)
            /\ variant = Maximize =>
                  RaisedTerminalCost(d) <= TerminalCost(edit_matrix)

\* The interior cell (i, j), i >= 1 and j >= 1, has been stored.
Stored(i, j) ==
    \/ pc \in {"replay", "write", "exit", "fault"}
    \/ pc = "row" /\ i <= to_idx
    \/ pc = "cell" /\ (i <= to_idx \/ (i = to_idx + 1 /\ j <= from_idx))

Interior == (1..to_length) \X (1..from_length)

\* The three candidate costs of the interior cell (i, j).
InsCand(i, j) == edit_matrix[i - 1][j].cost + costs[INSERT]

DelCand(i, j) == edit_matrix[i][j - 1].cost + costs[DELETE]

RepCand(i, j) ==
    edit_matrix[i - 1][j - 1].cost
        + costs[IF from[j] = to[i] THEN SKIP ELSE REPLACE]

Least(i, j) == SetMin({InsCand(i, j), DelCand(i, j), RepCand(i, j)})

\* C8 (amended): among the candidates of least cost the Minimize variant
\* prefers Replace/Skip to Delete to Insert: a cell stores the Replace/Skip
\* candidate whenever rep_cost is a minimum, otherwise DELETE whenever
\* del_cost is a minimum, otherwise INSERT.
C8_TieBreak ==
    variant = Minimize =>
        \A p \in Interior :
            Stored(p[1], p[2]) =>
                LET ty == edit_matrix[p[1]][p[2]].edit.type
                IN  IF RepCand(p[1], p[2]) = Least(p[1], p[2])
                    THEN ty = (IF from[p[2]] = to[p[1]] THEN SKIP ELSE REPLACE)
                    ELSE IF DelCand(p[1], p[2]) = Least(p[1], p[2])
                    THEN ty = DELETE
                    ELSE ty = INSERT

C8_Witness ==
    /\ variant = Minimize
    /\ \E p \in Interior :
          /\ Stored(p[1], p[2])
          /\ InsCand(p[1], p[2]) = DelCand(p[1], p[2])
          /\ DelCand(p[1], p[2]) < RepCand(p[1], p[2])
          /\ edit_matrix[p[1]][p[2]].edit.type = DELETE
    /\ \E p \in Interior :
          /\ Stored(p[1], p[2])
          /\ InsCand(p[1], p[2]) = RepCand(p[1], p[2])
          /\ RepCand(p[1], p[2]) = DelCand(p[1], p[2])
          /\ edit_matrix[p[1]][p[2]].edit.type = REPLACE

\* C8 as claimed: the preference is Insert over Delete over Replace/Skip.
C8_Original ==
    variant = Minimize =>
        \A p \in Interior :
            Stored(p[1], p[2]) =>
                LET ty == edit_matrix[p[1]][p[2]].edit.type
                IN  IF InsCand(p[1], p[2]) = Least(p[1], p[2])
                    THEN ty = INSERT
                    ELSE IF DelCand(p[1], p[2]) = Least(p[1], p[2])
                    THEN ty = DELETE
                    ELSE ty = (IF from[p[2]] = to[p[1]] THEN SKIP ELSE REPLACE)

\* C9: in the Minimize variant the replay loop starting at
\* (to_length, from_length) ends with the cursor at (0, 0) after at most
\* to_length + from_length iterations; every iteration decrements at least
\* one coordinate, none that is 0, and every cell read is inside the grid.
C9_ReplayTerminates ==
    /\ [](variant = Minimize /\ pc = "replay" =>
            /\ from_idx \in 0..from_length
            /\ to_idx \in 0..to_length
            /\ Len(result) <= to_length + from_length
            /\ LoopCond => InGrid(ReadRow(variant, to_idx),
                                  ReadCol(variant, from_idx)))
    /\ [][variant = Minimize /\ pc = "replay" /\ pc' = "replay" =>
            /\ Len(result') = Len(result) + 1
            /\ from_idx' < from_idx \/ to_idx' < to_idx
            /\ from_idx' \in {from_idx, from_idx - 1} /\ from_idx' >= 0
            /\ to_idx' \in {to_idx, to_idx - 1} /\ to_idx' >= 0]_vars
    /\ [](variant = Minimize /\ Returned =>
            /\ from_idx = 0 /\ to_idx = 0
            /\ Len(result) <= to_length + from_length)
    /\ [](variant = Minimize => pc # "fault")
    /\ (variant = Minimize /\ pc = "replay") ~> Returned

C9_Witness ==
    /\ variant = Minimize
    /\ Returned
    /\ from_length = 2
    /\ to_length = 2
    /\ Len(result) = 4
    /\ from_idx = 0
    /\ to_idx = 0

\* C10 as claimed: every cell the replay loop of the Maximize variant reads,
\* edit_matrix[to_idx + 1][from_idx + 1], lies inside the grid.
C10_MaximizeReadsInGrid ==
    (variant = Maximize /\ pc = "replay" /\ LoopCond) =>
        /\ ReadRow(variant, to_idx) <= to_length
        /\ ReadCol(variant, from_idx) <= from_length

====
